---- MODULE Spec2Model ----
(***************************************************************************)
(* A model of the airflow-etl DAG helper scripts:                          *)
(*   dags/prepare_model_and_data_for_training (model zoo synchronizer and  *)
(*   dataset/model assembly), dags/export_labeled_dataset_and_create_      *)
(*   tf_record (label export fetcher) and dags/utils/file_ops.             *)
(* Every function is a sequential batch of file and HTTP operations; each  *)
(* subsystem has its own specification over the shared variables.          *)
(***************************************************************************)
EXTENDS Integers, Sequences, FiniteSets, TLC

VARIABLES
    \* ---- model zoo synchronizer (download_and_extract_base_model) ----
    catalog,              \* rows of base_model_csv, in file order
    model_dirs,           \* base_model_folder: folder name -> "absent" | "empty" | "extracted"
    model_files,          \* archive files lying in base_model_folder
    required_base_models, \* None, or the requested display names
    models,               \* the rows selected for this run (line 131)
    subfolders,           \* the listing taken before the loop (line 132)
    idx,                  \* position of the for loop in models
    pc,                   \* "idle" | "loop" | "returned" | "raised" | "validated"
    raised,               \* the exception that left the function, or "none"
    outcomes,             \* per processed row, what happened to it (history)
    http_gets,            \* the rows requests.get was called for in this run
    mkdirs,               \* folders created by os.mkdir in this run
    dirs0,                \* model_dirs when the run started (history)
    files0,               \* model_files when the run started (history)
    runs,                 \* number of runs started
    required_list,        \* the list given to validate_requested_model_exist_in_model_zoo_list
    catalog0,             \* the catalog at construction (history)
    \* ---- TFRecord bundles (compare_label_map_file, copy_tf_records_to_*) ----
    tf_root,              \* the TFRecords root: subfolder name -> bundle, or NoBundle
    video_source,         \* the source filter of the call
    listing,              \* the matching subfolders in the order the listing gave them
    tf_op,                \* "none" | "compare" | "training" | "model_repo"
    tf_result,            \* what compare_label_map_file returned: "None" | "True" | "False"
    dest_folders,         \* the folders of the destination tree that exist
    dest_train,           \* destination train folder: file name -> source subfolder, or NoSource
    dest_val,             \* destination val folder: file name -> source subfolder, or NoSource
    dest_labelmap,        \* the destination labelmap.pbtxt: NoFile, or File(bytes)
    dest_trainval,        \* the destination trainval.txt: NoFile, or File(sources concatenated)
    \* ---- image copy (copy_images_to_output) ----
    labelbox_output,      \* the labeled-output root: subfolder name -> project folder
    labelbox_output0,     \* the root before the call (history)
    output_folder,        \* the flat destination: file name -> source subfolder, or NoSource
    \* ---- config generation (generate_model_config) ----
    model_config_template,\* the template text given to the call
    config_values,        \* num_classes, bucket_url, model_folder_ts, batch size, epoch count
    write_fails,          \* the pipeline.config files whose open/write raises IOError
    pipeline_config,      \* the two pipeline.config files: tree -> NoFile or File(text)
    \* ---- label export (generate_project_labels, fetch_project_labels) ----
    projects,             \* the answer of the project-list query, in its order
    project_name,         \* the project name given to the call
    exp_op,               \* "none" | "generate" | "fetch"
    scan_i,               \* position of the for loop of __get_specific_project_id
    project_id,           \* <<>>, or <<id>> once the resolution returned
    returns,              \* number of times the resolution returned an id
    export_requests,      \* the project ids the export mutation was executed for
    reported,             \* whether "Export Generating..." was reported
    payload,              \* the export payload read from downloadUrl, or NoPayload
    input_tree,           \* input/<project>/: whether it exists, and its files
    output_tree,          \* output/<project>/: whether it exists, and its files
    input_tree0,          \* input/<project>/ before the call (history)
    output_tree0,         \* output/<project>/ before the call (history)
    \* ---- catalog refresh (download_reference_model_list_as_csv) ----
    catalog_csv,          \* base_model_csv on disk: whether it exists, and its rows
    catalog_csv0,         \* base_model_csv before the call (history)
    response,             \* what requests.get gave: NoResponse, or status and links of the page
    \* ---- train_model DAG (train_models_dag.py) ----
    json_files,           \* glob of the trainable folder, in the order glob gave
    dag_i,                \* position of the module's for loop in json_files
    tasks,                \* task ids created in the DAG
    edges,                \* dependencies set with >>: <<upstream, downstream>>
    done,                 \* tasks the scheduler has run to completion
    \* ---- base model copy (copy_base_model_to_*) ----
    base_model,           \* the display name given to the call
    base_variant,         \* "none" | "training" | "model_repo"
    base_src,             \* base_model_folder: folder name -> the files extracted there
    base_dest,            \* the destination folder: whether it exists, and its files
    base_dest0,           \* the destination folder before the call (history)
    \* ---- substitution order (generate_model_config, lines 563-579) ----
    applied,              \* the tokens substituted so far, in some order
    perm_result           \* the text after them, or the failure of a substitution

syncVars == <<catalog, model_dirs, model_files, required_base_models, models,
              subfolders, idx, pc, raised, outcomes, http_gets, mkdirs,
              dirs0, files0, runs, required_list, catalog0>>

tfVars == <<tf_root, video_source, listing, tf_op, tf_result, dest_folders,
            dest_train, dest_val, dest_labelmap, dest_trainval>>

imgVars == <<labelbox_output, labelbox_output0, output_folder>>

(* The variables of the other subsystems, per subsystem. *)
syncData == <<catalog, model_dirs, model_files, required_base_models, models,
              subfolders, idx, outcomes, http_gets, mkdirs, dirs0, files0, runs,
              required_list, catalog0>>
tfData == <<tf_root, tf_op, tf_result, dest_folders, dest_train, dest_val,
            dest_labelmap, dest_trainval>>
cfgVars == <<model_config_template, config_values, write_fails, pipeline_config>>

expVars == <<projects, project_name, exp_op, scan_i, project_id, returns,
            export_requests, reported, payload, input_tree, output_tree,
            input_tree0, output_tree0>>

catVars == <<catalog_csv, catalog_csv0, response>>
dagVars == <<json_files, dag_i, tasks, edges, done>>
baseVars == <<base_model, base_variant, base_src, base_dest, base_dest0>>
permVars == <<applied, perm_result>>

(* The sync variables other than the catalog, which the base model copy reads. *)
syncRun == <<model_dirs, model_files, required_base_models, models, subfolders,
             idx, outcomes, http_gets, mkdirs, dirs0, files0, runs,
             required_list, catalog0>>

notSync == <<tfVars, imgVars, cfgVars, expVars, catVars, dagVars, baseVars, permVars>>
notTf == <<syncData, imgVars, cfgVars, expVars, catVars, dagVars, baseVars, permVars>>
notImg == <<syncData, tfData, cfgVars, expVars, catVars, dagVars, baseVars, permVars>>
notCfg == <<syncData, tfVars, imgVars, expVars, catVars, dagVars, baseVars, permVars>>
notExp == <<syncData, tfVars, imgVars, cfgVars, catVars, dagVars, baseVars, permVars>>
notCat == <<syncData, tfVars, imgVars, cfgVars, expVars, dagVars, baseVars, permVars>>
notDag == <<syncData, tfVars, imgVars, cfgVars, expVars, catVars, baseVars, permVars>>
notBase == <<syncData, tfVars, imgVars, cfgVars, expVars, catVars, dagVars, permVars>>
notPerm == <<syncData, tfVars, imgVars, expVars, catVars, dagVars, baseVars>>

vars == <<syncVars, tfVars, imgVars, cfgVars, expVars, catVars, dagVars, baseVars,
          permVars>>

----------------------------------------------------------------------------
(* Bounds of the model. *)
MaxCatalog == 2
MaxRequired == 2
MaxRuns == 2

(* Display names and folder names; "mX" is a name no catalog row carries. *)
ModelNames == {"m1", "m2"}
RequestNames == ModelNames \cup {"mX"}
FolderNames == {"f1", "f2"}

(* required_base_models: None (the default, line 112) or a list of names.   *)
None == [given |-> FALSE, names |-> {}]
Given(names) == [given |-> TRUE, names |-> names]

SeqsUpTo(S, n) == UNION {[1..k -> S] : k \in 0..n}

(* A row of the CSV.  model_file_name is the archive's base name and        *)
(* model_folder_name is that name with its two extensions stripped          *)
(* (lines 43-45), so the folder name determines the archive name.           *)
Rows == [model_name : ModelNames, model_folder_name : FolderNames]
model_file_name(row) == <<row.model_folder_name, "tar.gz">>

Range(s) == {s[i] : i \in DOMAIN s}

----------------------------------------------------------------------------
(* file_ops.get_subfolders_names_in_directory: the names of the            *)
(* subfolders of a directory.                                               *)
get_subfolders_names_in_directory(dirs) ==
    {f \in DOMAIN dirs : dirs[f] # "absent"}

(* Lines 126-131: the rows of the catalog, filtered by isin when            *)
(* required_base_models is given, in catalog order.                         *)
SelectFrom(rows, required) ==
    SelectSeq(rows, LAMBDA r : ~required.given \/ r.model_name \in required.names)

SelectModelsUnfiltered(rows, required) == rows

SelectModels(rows, required) == SelectFrom(rows, required)

(* Line 135: the row needs a download when its folder was not listed.       *)
NeedsDownload(row, present) == row.model_folder_name \notin present

(* What can happen to a row that needs a download (lines 137-150):          *)
(*   mkdir_exists       os.mkdir finds the folder (FileExistsError)         *)
(*   request_exception  requests.get raises RequestException (caught)       *)
(*   non200             the response status is not 200 (skipped)            *)
(*   write_error        writing the archive raises (not caught)             *)
(*   unpack_error       shutil.unpack_archive raises (not caught)           *)
(*   ok                 archive written, unpacked and removed               *)
DownloadOutcomes == {"request_exception", "non200", "write_error", "unpack_error", "ok"}

(* Lines 149-150: the only exception the loop catches.                      *)
Caught(o) == o \in {"request_exception"}

(* Exceptions by outcome. *)
ExceptionOf(o) ==
    CASE o = "mkdir_exists" -> "FileExistsError"
      [] o = "request_exception" -> "RequestException"
      [] o = "write_error" -> "OSError"
      [] o = "unpack_error" -> "ReadError"
      [] OTHER -> "none"

Raises(o) == ExceptionOf(o) # "none" /\ ~Caught(o)

(* Lines 147-148: a successful unpack fills the folder named after the      *)
(* archive and the archive is removed.                                      *)
FilesAfterOkKeepArchive(files, row) == files \cup {model_file_name(row)}

FilesAfterOk(files, row) == files \ {model_file_name(row)}

(* The archive file after line 143 opened it: it exists from then on unless *)
(* line 148 removed it.                                                     *)
FilesAfter(files, row, o) ==
    CASE o \in {"write_error", "unpack_error"} -> files \cup {model_file_name(row)}
      [] o = "ok" -> FilesAfterOk(files, row)
      [] OTHER -> files

DirsAfter(dirs, row, o) ==
    CASE o = "mkdir_exists" -> dirs
      [] o = "ok" -> [dirs EXCEPT ![row.model_folder_name] = "extracted"]
      [] OTHER -> [dirs EXCEPT ![row.model_folder_name] = "empty"]

----------------------------------------------------------------------------
(* A file that does not exist, and a file with the given content. *)
NoFile == [exists |-> FALSE, content |-> <<>>]
File(content) == [exists |-> TRUE, content |-> content]

(* The TFRecord variables while another subsystem runs. *)
TfIdle ==
    /\ tf_root = <<>>
    /\ video_source = <<>>
    /\ listing = <<>>
    /\ tf_op = "none"
    /\ tf_result = "unset"
    /\ dest_folders = {}
    /\ dest_train = <<>>
    /\ dest_val = <<>>
    /\ dest_labelmap = NoFile
    /\ dest_trainval = NoFile

(* The image-copy variables while another subsystem runs. *)
ImgIdle ==
    /\ labelbox_output = <<>>
    /\ labelbox_output0 = <<>>
    /\ output_folder = <<>>

(* The config-generation variables while another subsystem runs. *)
CfgIdle ==
    /\ model_config_template = <<>>
    /\ config_values = <<>>
    /\ write_fails = {}
    /\ pipeline_config = <<>>

(* The label-export variables while another subsystem runs. *)
ExpIdle ==
    /\ projects = <<>>
    /\ project_name = ""
    /\ exp_op = "none"
    /\ scan_i = 1
    /\ project_id = <<>>
    /\ returns = 0
    /\ export_requests = <<>>
    /\ reported = FALSE
    /\ payload = <<>>
    /\ input_tree = <<>>
    /\ output_tree = <<>>
    /\ input_tree0 = <<>>
    /\ output_tree0 = <<>>

(* The catalog-refresh variables while another subsystem runs. *)
CatIdle ==
    /\ catalog_csv = <<>>
    /\ catalog_csv0 = <<>>
    /\ response = <<>>

(* The DAG variables while another subsystem runs. *)
DagIdle ==
    /\ json_files = <<>>
    /\ dag_i = 1
    /\ tasks = {}
    /\ edges = {}
    /\ done = {}

(* The base-model-copy variables while another subsystem runs. *)
BaseIdle ==
    /\ base_model = ""
    /\ base_variant = "none"
    /\ base_src = <<>>
    /\ base_dest = <<>>
    /\ base_dest0 = <<>>

(* The substitution-order variables while another subsystem runs. *)
PermIdle ==
    /\ applied = {}
    /\ perm_result = <<>>

(* The variables of the subsystems added after the label export. *)
OthersIdle == CatIdle /\ DagIdle /\ BaseIdle /\ PermIdle

(* The synchronizer's variables while another subsystem runs. *)
SyncIdle ==
    /\ catalog = <<>>
    /\ model_dirs = <<>>
    /\ model_files = {}
    /\ required_base_models = None
    /\ models = <<>>
    /\ subfolders = {}
    /\ idx = 1
    /\ outcomes = <<>>
    /\ http_gets = {}
    /\ mkdirs = {}
    /\ dirs0 = <<>>
    /\ files0 = {}
    /\ runs = 0
    /\ required_list = <<>>
    /\ catalog0 = <<>>

SyncInit ==
    /\ OthersIdle
    /\ ExpIdle
    /\ TfIdle
    /\ ImgIdle
    /\ CfgIdle
    /\ catalog \in SeqsUpTo(Rows, MaxCatalog)
    /\ model_dirs \in [FolderNames -> {"absent", "empty", "extracted"}]
    /\ model_files = {}
    /\ required_base_models = None
    /\ models = <<>>
    /\ subfolders = {}
    /\ idx = 1
    /\ pc = "idle"
    /\ raised = "none"
    /\ outcomes = <<>>
    /\ http_gets = {}
    /\ mkdirs = {}
    /\ dirs0 = model_dirs
    /\ files0 = model_files
    /\ runs = 0
    /\ required_list = <<>>
    /\ catalog0 = catalog

(* Lines 125-132: read the CSV, select the rows, list the folder. *)
BeginDownload(required) ==
    /\ pc = "idle"
    /\ runs < MaxRuns
    /\ required_base_models' = required
    /\ models' = SelectModels(catalog, required)
    /\ subfolders' = get_subfolders_names_in_directory(model_dirs)
    /\ idx' = 1
    /\ pc' = "loop"
    /\ raised' = "none"
    /\ outcomes' = <<>>
    /\ http_gets' = {}
    /\ mkdirs' = {}
    /\ dirs0' = model_dirs
    /\ files0' = model_files
    /\ runs' = runs + 1
    /\ UNCHANGED <<catalog, model_dirs, model_files, required_list, catalog0>>
    /\ UNCHANGED notSync

(* One iteration of the loop of line 134 over a row already present. *)
SkipPresent ==
    /\ pc = "loop"
    /\ idx <= Len(models)
    /\ ~NeedsDownload(models[idx], subfolders)
    /\ outcomes' = Append(outcomes, "present")
    /\ idx' = idx + 1
    /\ UNCHANGED <<catalog, model_dirs, model_files, required_base_models, models,
                   subfolders, pc, raised, http_gets, mkdirs, dirs0, files0, runs,
                   required_list, catalog0>>
    /\ UNCHANGED notSync

(* One iteration over a row whose folder was not listed: lines 136-150. *)
DownloadRow(o) ==
    /\ pc = "loop"
    /\ idx <= Len(models)
    /\ NeedsDownload(models[idx], subfolders)
    /\ LET row == models[idx]
           out == IF model_dirs[row.model_folder_name] # "absent"
                  THEN "mkdir_exists" ELSE o
       IN /\ outcomes' = Append(outcomes, out)
          /\ model_dirs' = DirsAfter(model_dirs, row, out)
          /\ model_files' = FilesAfter(model_files, row, out)
          /\ mkdirs' = IF out = "mkdir_exists" THEN mkdirs
                       ELSE mkdirs \cup {row.model_folder_name}
          /\ http_gets' = IF out = "mkdir_exists" THEN http_gets
                          ELSE http_gets \cup {row}
          /\ IF Raises(out)
             THEN pc' = "raised" /\ raised' = ExceptionOf(out) /\ idx' = idx
             ELSE pc' = pc /\ raised' = raised /\ idx' = idx + 1
    /\ UNCHANGED <<catalog, required_base_models, models, subfolders,
                   dirs0, files0, runs,
                   required_list, catalog0>>
    /\ UNCHANGED notSync

(* The loop is exhausted: the function returns. *)
ReturnDownload ==
    /\ pc = "loop"
    /\ idx > Len(models)
    /\ pc' = "returned"
    /\ UNCHANGED <<catalog, model_dirs, model_files, required_base_models, models,
                   subfolders, idx, raised, outcomes, http_gets, mkdirs,
                   dirs0, files0, runs,
                   required_list, catalog0>>
    /\ UNCHANGED notSync

(* The task ended; the scheduler may start it again. *)
NextRun ==
    /\ pc \in {"returned", "raised"}
    /\ pc' = "idle"
    /\ UNCHANGED <<catalog, model_dirs, model_files, required_base_models, models,
                   subfolders, idx, raised, outcomes, http_gets, mkdirs,
                   dirs0, files0, runs,
                   required_list, catalog0>>
    /\ UNCHANGED notSync

SyncNext ==
    \/ \E required \in {None} \cup {Given(S) : S \in SUBSET RequestNames} :
            BeginDownload(required)
    \/ SkipPresent
    \/ \E o \in DownloadOutcomes : DownloadRow(o)
    \/ ReturnDownload
    \/ NextRun

SyncSpec == SyncInit /\ [][SyncNext]_vars

----------------------------------------------------------------------------
(* validate_requested_model_exist_in_model_zoo_list, lines 205-218.         *)

(* Line 206: df["model_name"].unique(). *)
available_models(rows) == {rows[i].model_name : i \in DOMAIN rows}

(* Lines 213-217: the first requested name that is not available raises. *)
RECURSIVE ScanRequired(_, _, _)
ScanRequired(req, i, available) ==
    IF i > Len(req) THEN "none"
    ELSE IF req[i] \notin available THEN "ValueError"
    ELSE ScanRequired(req, i + 1, available)

ValidateOutcomeNoEmptyCheck(rows, req) ==
    ScanRequired(req, 1, available_models(rows))

(* Lines 208-217: the exception the function raises, or "none". *)
ValidateOutcome(rows, req) ==
    IF Len(req) <= 0 THEN "ValueError"
    ELSE ScanRequired(req, 1, available_models(rows))

Validate(req) ==
    /\ pc = "idle"
    /\ required_list' = req
    /\ raised' = ValidateOutcome(catalog, req)
    /\ pc' = IF raised' = "none" THEN "returned" ELSE "raised"
    /\ UNCHANGED <<catalog, model_dirs, model_files, required_base_models, models,
                   subfolders, idx, outcomes, http_gets, mkdirs, dirs0, files0,
                   runs, catalog0>>
    /\ UNCHANGED notSync

ValidateNext ==
    \E req \in SeqsUpTo(RequestNames, MaxRequired) : Validate(req)

ValidateSpec == SyncInit /\ [][ValidateNext]_vars

----------------------------------------------------------------------------
(* Properties of the model zoo synchronizer. *)

(* The catalog rows a run is asked for: all of them, or those whose display *)
(* name is requested.                                                       *)
Requested(row) ==
    ~required_base_models.given \/ row.model_name \in required_base_models.names

RequestedRows == {catalog[i] : i \in {j \in DOMAIN catalog : Requested(catalog[j])}}

FullyPopulated0 ==
    \A row \in RequestedRows : dirs0[row.model_folder_name] # "absent"

InRun == pc \in {"loop", "returned", "raised"}

(* C1: a run over a models directory that already holds the folder of every *)
(* requested catalog row calls requests.get for no row, creates no folder   *)
(* and leaves the folders and files of the models directory as they were.   *)
C1_IdempotentRerun ==
    (InRun /\ FullyPopulated0) =>
        /\ http_gets = {}
        /\ mkdirs = {}
        /\ model_dirs = dirs0
        /\ model_files = files0

(* A second run has returned over a directory the first run populated. *)
C1_Witness ==
    /\ pc = "returned"
    /\ runs = 2
    /\ FullyPopulated0
    /\ Len(models) = 2
    /\ \E f \in FolderNames : model_dirs[f] = "absent"

(* C2: a row whose folder was absent and whose download went through leaves *)
(* its folder holding the extracted contents and no archive file; folders   *)
(* are created and archives requested only for requested rows.              *)
C2_DownloadedRowExtracted ==
    /\ \A i \in DOMAIN outcomes :
          outcomes[i] = "ok" =>
             /\ dirs0[models[i].model_folder_name] = "absent"
             /\ model_dirs[models[i].model_folder_name] = "extracted"
             /\ model_file_name(models[i]) \notin model_files
    /\ \A row \in http_gets : row \in RequestedRows
    /\ \A f \in mkdirs : \E row \in RequestedRows : row.model_folder_name = f

(* One requested row was downloaded while an unrequested row's absent       *)
(* folder stayed absent.                                                    *)
C2_Witness ==
    /\ pc = "returned"
    /\ required_base_models.given
    /\ \E i \in DOMAIN outcomes : outcomes[i] = "ok"
    /\ \E j \in DOMAIN catalog :
          /\ ~Requested(catalog[j])
          /\ model_dirs[catalog[j].model_folder_name] = "absent"

DownloadFailures == {"request_exception", "non200", "write_error", "unpack_error"}
SwallowedFailures == {"request_exception", "non200"}

(* C3 as stated: no failure of a row's download (request exception,         *)
(* non-200 response, failure writing or extracting the archive) ends the    *)
(* run with an exception.                                                   *)
C3_NoDownloadFailureAborts ==
    pc = "raised" => outcomes[Len(outcomes)] \notin DownloadFailures

(* What the loop does instead: a request exception or a non-200 response    *)
(* never ends the run, the loop goes on to the next row and a run that      *)
(* returns has processed every selected row.  The run ends with an          *)
(* exception exactly at a row whose os.mkdir, archive write or unpack       *)
(* raised, and no row after it is processed.                                *)
OnlyRequestFailuresSwallowed ==
    /\ pc = "raised" =>
          /\ outcomes # <<>>
          /\ outcomes[Len(outcomes)] \in {"mkdir_exists", "write_error", "unpack_error"}
          /\ idx = Len(outcomes)
    /\ pc = "returned" => Len(outcomes) = Len(models)
    /\ pc = "loop" => idx = Len(outcomes) + 1
    /\ \A i \in DOMAIN outcomes :
          i < Len(outcomes) => outcomes[i] \in SwallowedFailures \cup {"ok", "present"}

(* C4: the validation raises ValueError exactly when the requested list is  *)
(* empty or names a model that no catalog row carries, returns otherwise,   *)
(* and changes neither the catalog nor the models directory.                *)
C4_ValidateRaisesIffUnavailable ==
    pc \in {"returned", "raised"} =>
        /\ (raised = "ValueError") <=>
              \/ required_list = <<>>
              \/ \E i \in DOMAIN required_list :
                    \A j \in DOMAIN catalog :
                        catalog[j].model_name # required_list[i]
        /\ (pc = "returned") <=> (raised = "none")
        /\ raised \in {"none", "ValueError"}
        /\ catalog = catalog0
        /\ model_dirs = dirs0
        /\ model_files = files0

(* A non-empty list whose second name is missing from the catalog raised. *)
C4_Witness ==
    /\ pc = "raised"
    /\ Len(required_list) = 2
    /\ required_list[1] \in available_models(catalog)
    /\ required_list[2] \notin available_models(catalog)

----------------------------------------------------------------------------
(* TFRecord bundles: compare_label_map_file (lines 155-188),                *)
(* copy_tf_records_to_training_folder (lines 341-386) and                   *)
(* copy_tf_records_to_model_repo (lines 389-441).                           *)

(* Subfolder names of the TFRecords root and source filters, as character   *)
(* sequences; the filter <<"1">> selects names of two different sources.    *)
SubfolderNames == {<<"A", "1">>, <<"A", "2">>, <<"B", "1">>}
SourceFilters == {<<"A">>, <<"B">>, <<"1">>}

(* `filter in name`: the filter occurs somewhere in the name. *)
Contains(name, filter) ==
    \E i \in 0..(Len(name) - Len(filter)) :
        SubSeq(name, i + 1, i + Len(filter)) = filter

(* A label map file: its bytes and its modification time.  The first two    *)
(* have different bytes of the same length.                                 *)
LabelMapA == [bytes |-> <<"a", "LF">>, mtime |-> 1]
LabelMapB == [bytes |-> <<"b", "LF">>, mtime |-> 1]
LabelMapBLater == [bytes |-> <<"b", "LF">>, mtime |-> 2]
LabelMapACrLf == [bytes |-> <<"a", "CR", "LF">>, mtime |-> 1]
LabelMapFiles == {LabelMapA, LabelMapB, LabelMapBLater, LabelMapACrLf}

(* The *.pbtxt files of a subfolder in the order glob gives them. *)
PbtxtLists ==
    {<<>>} \cup {<<f>> : f \in LabelMapFiles} \cup {<<LabelMapBLater, LabelMapA>>}

TrainNames == {"x_train.record", "y_train.record"}
ValNames == {"x_val.record"}

(* A bundle: its label maps, its *_train.record and *_val.record files and  *)
(* whether it holds a *.txt trainval listing.                               *)
Bundles == [present : {TRUE}, pbtxt : PbtxtLists, train : SUBSET TrainNames,
            val : SUBSET ValNames, txt : BOOLEAN]
OtherBundle == [present |-> TRUE, pbtxt |-> <<LabelMapB>>, train |-> TrainNames,
                val |-> ValNames, txt |-> TRUE]
NoBundle == [present |-> FALSE, pbtxt |-> <<>>, train |-> {}, val |-> {}, txt |-> FALSE]
NoSource == <<>>

(* file_ops.get_directory_subfolders_subset: the subfolders of the root     *)
(* whose name contains the filter.  The order of a directory listing is not *)
(* defined: any order of them may come back.                                *)
Matching(root, filter) ==
    {n \in DOMAIN root : root[n].present /\ Contains(n, filter)}

Orders(S) ==
    {o \in [1..Cardinality(S) -> S] : \A i, j \in DOMAIN o : o[i] = o[j] => i = j}

get_directory_subfolders_subset(root, filter) == Orders(Matching(root, filter))

(* filecmp.cmp(f1, f2) with its default shallow=True: equal os.stat         *)
(* signatures (type, size, mtime) are taken as equal files; otherwise       *)
(* different sizes are unequal and equal sizes compare the bytes.           *)
Signature(f) == <<Len(f.bytes), f.mtime>>

filecmp_cmp(f1, f2) ==
    IF Signature(f1) = Signature(f2) THEN TRUE
    ELSE IF Len(f1.bytes) # Len(f2.bytes) THEN FALSE
    ELSE f1.bytes = f2.bytes

(* Lines 171-188.  Line 174 takes glob(...)[0] of every subfolder, which    *)
(* raises IndexError for a subfolder without a .pbtxt; with fewer than two  *)
(* subfolders the function falls off its end and returns None.              *)
compare_label_map_file(root, order) ==
    IF Len(order) > 1
    THEN IF \E i \in DOMAIN order : root[order[i]].pbtxt = <<>>
         THEN [result |-> "unset", raised |-> "IndexError"]
         ELSE LET label_maps == [i \in DOMAIN order |-> root[order[i]].pbtxt[1]]
                  reference_label_map == label_maps[1]
              IN [result |-> IF \A i \in DOMAIN label_maps :
                                    filecmp_cmp(label_maps[i], reference_label_map)
                             THEN "True" ELSE "False",
                  raised |-> "none"]
    ELSE [result |-> "None", raised |-> "none"]

(* Lines 366-369: the globs of every subfolder, concatenated in order. *)
RECURSIVE labelmap_files(_, _, _)
labelmap_files(root, order, i) ==
    IF i > Len(order) THEN <<>>
    ELSE root[order[i]].pbtxt \o labelmap_files(root, order, i + 1)

(* Lines 371-377: shutil.copy2 of every record into one folder, under the   *)
(* file's own name: a later file of the same name replaces the earlier.     *)
RECURSIVE CopyRecords(_, _, _, _, _)
CopyRecords(dest, root, order, i, kind) ==
    IF i > Len(order) THEN dest
    ELSE CopyRecords([n \in DOMAIN dest |->
                         IF n \in root[order[i]][kind] THEN order[i] ELSE dest[n]],
                     root, order, i + 1, kind)

(* Reading a file opened in text mode translates "\r\n" and "\r" to "\n";   *)
(* writing it back on Linux keeps "\n" (lines 380-383).                     *)
RECURSIVE TextCopy(_)
TextCopy(bytes) ==
    IF bytes = <<>> THEN <<>>
    ELSE IF bytes[1] = "CR"
    THEN IF Len(bytes) > 1 /\ bytes[2] = "LF"
         THEN <<"LF">> \o TextCopy(SubSeq(bytes, 3, Len(bytes)))
         ELSE <<"LF">> \o TextCopy(Tail(bytes))
    ELSE <<bytes[1]>> \o TextCopy(Tail(bytes))

WriteLabelMapSkipMissing(files) ==
    IF files = <<>>
    THEN [labelmap |-> NoFile, raised |-> "none"]
    ELSE [labelmap |-> File(TextCopy(files[1].bytes)), raised |-> "none"]

(* Lines 379-384: labelmap.pbtxt is opened for writing (and so created      *)
(* empty) before labelmap_files[0] is evaluated.                            *)
WriteLabelMap(files) ==
    IF files = <<>>
    THEN [labelmap |-> File(<<>>), raised |-> "IndexError"]
    ELSE [labelmap |-> File(TextCopy(files[1].bytes)), raised |-> "none"]

(* Lines 434-439: the *.txt listings of the subfolders, concatenated. *)
trainval_files(root, order) == SelectSeq(order, LAMBDA n : root[n].txt)

TfInit ==
    /\ OthersIdle
    /\ ExpIdle
    /\ tf_root \in [SubfolderNames -> Bundles \cup {NoBundle}]
    /\ tf_root[<<"B", "1">>] \in {NoBundle, OtherBundle}
    /\ video_source = <<>>
    /\ listing = <<>>
    /\ tf_op = "none"
    /\ tf_result = "unset"
    /\ dest_folders = {}
    /\ dest_train = [n \in TrainNames |-> NoSource]
    /\ dest_val = [n \in ValNames |-> NoSource]
    /\ dest_labelmap = NoFile
    /\ dest_trainval = NoFile
    /\ pc = "idle"
    /\ raised = "none"
    /\ SyncIdle
    /\ ImgIdle
    /\ CfgIdle

CompareLabelMap(filter, order) ==
    /\ pc = "idle"
    /\ order \in get_directory_subfolders_subset(tf_root, filter)
    /\ video_source' = filter
    /\ listing' = order
    /\ tf_op' = "compare"
    /\ LET r == compare_label_map_file(tf_root, order)
       IN /\ tf_result' = r.result
          /\ raised' = r.raised
          /\ pc' = IF r.raised = "none" THEN "returned" ELSE "raised"
    /\ UNCHANGED <<tf_root, dest_folders, dest_train, dest_val, dest_labelmap,
                   dest_trainval>>
    /\ UNCHANGED notTf

(* Both merges: lines 355-386 and, with the trainval listing, 401-441. *)
CopyTfRecords(variant, filter, order) ==
    /\ pc = "idle"
    /\ order \in get_directory_subfolders_subset(tf_root, filter)
    /\ video_source' = filter
    /\ listing' = order
    /\ tf_op' = variant
    /\ dest_folders' = {"train", "val"}
    /\ dest_train' = CopyRecords(dest_train, tf_root, order, 1, "train")
    /\ dest_val' = CopyRecords(dest_val, tf_root, order, 1, "val")
    /\ LET w == WriteLabelMap(labelmap_files(tf_root, order, 1))
       IN /\ dest_labelmap' = w.labelmap
          /\ raised' = w.raised
          /\ pc' = IF w.raised = "none" THEN "returned" ELSE "raised"
          /\ dest_trainval' = IF variant = "model_repo" /\ w.raised = "none"
                              THEN File(trainval_files(tf_root, order))
                              ELSE dest_trainval
    /\ UNCHANGED <<tf_root, tf_result>>
    /\ UNCHANGED notTf

copy_tf_records_to_training_folder(filter, order) ==
    CopyTfRecords("training", filter, order)

copy_tf_records_to_model_repo(filter, order) ==
    CopyTfRecords("model_repo", filter, order)

TfNext ==
    \/ \E filter \in SourceFilters :
          \E order \in get_directory_subfolders_subset(tf_root, filter) :
              CompareLabelMap(filter, order)
    \/ \E filter \in SourceFilters :
          \E order \in get_directory_subfolders_subset(tf_root, filter) :
              copy_tf_records_to_training_folder(filter, order)
    \/ \E filter \in SourceFilters :
          \E order \in get_directory_subfolders_subset(tf_root, filter) :
              copy_tf_records_to_model_repo(filter, order)

TfSpec == TfInit /\ [][TfNext]_vars

----------------------------------------------------------------------------
(* Properties of the TFRecord bundle operations. *)

Done == pc \in {"returned", "raised"}

(* The first .pbtxt of a listed subfolder. *)
FirstPbtxt(n) == tf_root[n].pbtxt[1]

AllHaveLabelMap == \A i \in DOMAIN listing : tf_root[listing[i]].pbtxt # <<>>

AllByteIdentical ==
    \A i \in DOMAIN listing : FirstPbtxt(listing[i]).bytes = FirstPbtxt(listing[1]).bytes

(* C5: compare_label_map_file always returns one of three distinguishable   *)
(* results: "insufficient" (None) with fewer than two matching subfolders,  *)
(* match (True) with two or more whose first .pbtxt files are all           *)
(* byte-identical to the first subfolder's, mismatch (False) when one       *)
(* differs.                                                                 *)
C5_ThreeWayResult ==
    (tf_op = "compare" /\ Done) =>
        /\ pc = "returned"
        /\ tf_result \in {"None", "True", "False"}
        /\ (tf_result = "None") <=> (Len(listing) < 2)
        /\ Len(listing) >= 2 =>
              /\ AllHaveLabelMap
              /\ (tf_result = "True") <=> AllByteIdentical

(* The *_train.record and *_val.record files of the listed subfolders. *)
SourceRecords(kind) ==
    {p \in Range(listing) \X (TrainNames \cup ValNames) : p[2] \in tf_root[p[1]][kind]}

Copied(dest) == {n \in DOMAIN dest : dest[n] # NoSource}

(* C7: the training merge, run on a fresh destination, leaves one file in   *)
(* train/ for every *_train.record file of the matching subfolders, one in  *)
(* val/ for every *_val.record file, and a labelmap.pbtxt whose content is  *)
(* that of the first discovered source label map.                           *)
C7_OneFilePerRecord ==
    (tf_op = "training" /\ pc = "returned") =>
        /\ Cardinality(Copied(dest_train)) = Cardinality(SourceRecords("train"))
        /\ Cardinality(Copied(dest_val)) = Cardinality(SourceRecords("val"))
        /\ dest_labelmap = File(labelmap_files(tf_root, listing, 1)[1].bytes)

NoLabelMapAnywhere == \A n \in Matching(tf_root, video_source) : tf_root[n].pbtxt = <<>>

(* C8: both merges raise IndexError whenever no matching subfolder holds a  *)
(* .pbtxt (also when no subfolder matches), and a merge that returns has    *)
(* written a labelmap.pbtxt read from a label map of a matching subfolder.  *)
C8_MissingLabelMapIsIndexError ==
    (tf_op \in {"training", "model_repo"} /\ Done) =>
        /\ NoLabelMapAnywhere => (pc = "raised" /\ raised = "IndexError")
        /\ pc = "returned" =>
              \E n \in Matching(tf_root, video_source) :
                  \E k \in DOMAIN tf_root[n].pbtxt :
                      dest_labelmap = File(TextCopy(tf_root[n].pbtxt[k].bytes))

(* The model-repo merge raised IndexError over two matching subfolders that *)
(* hold records but no label map.                                           *)
C8_Witness ==
    /\ tf_op = "model_repo"
    /\ pc = "raised"
    /\ raised = "IndexError"
    /\ Len(listing) = 2
    /\ Copied(dest_train) # {}
    /\ NoLabelMapAnywhere

----------------------------------------------------------------------------
(* copy_images_to_output, lines 250-275. *)

(* Child folders of a project folder and the files they hold. *)
ImageNames == {"a.jpg", "b.jpg"}
AnnotationNames == {"a.xml"}
ChildLists ==
    {<<>>, <<"images">>, <<"annotations">>, <<"images", "annotations">>,
     <<"annotations", "images">>}

(* A project folder: its child folders in listing order and the files of    *)
(* its images child; an annotations child holds AnnotationNames.            *)
Projects ==
    {p \in [present : {TRUE}, children : ChildLists, images : SUBSET ImageNames] :
        p.images # {} => \E i \in DOMAIN p.children : p.children[i] = "images"}
NoProject == [present |-> FALSE, children |-> <<>>, images |-> {}]

FilesOf(project, child) ==
    IF child = "images" THEN project.images ELSE AnnotationNames

(* file_ops.get_subfolders_in_directory: the child folders of a folder. *)
get_subfolders_in_directory(project) == project.children

AnyChild(child) == TRUE

(* Lines 270-272: image_subfolder.endswith("images"). *)
EndsWithImages(child) == child = "images"

(* file_ops.copy_files_from_folder: every file of the folder is copied into *)
(* the destination under its own name.                                      *)
copy_files_from_folder(dest, files, from) ==
    [n \in DOMAIN dest |-> IF n \in files THEN from ELSE dest[n]]

(* Lines 267-275: per listed project folder, the first child that ends in   *)
(* "images" is copied; subfolders[0] raises IndexError when there is none.  *)
RECURSIVE CopyImages(_, _, _, _)
CopyImages(dest, root, order, i) ==
    IF i > Len(order) THEN [dest |-> dest, raised |-> "none"]
    ELSE LET image_subfolders ==
                 SelectSeq(get_subfolders_in_directory(root[order[i]]), EndsWithImages)
         IN IF image_subfolders = <<>>
            THEN [dest |-> dest, raised |-> "IndexError"]
            ELSE CopyImages(copy_files_from_folder(
                                dest, FilesOf(root[order[i]], image_subfolders[1]),
                                order[i]),
                            root, order, i + 1)

ImgInit ==
    /\ OthersIdle
    /\ ExpIdle
    /\ labelbox_output \in [SubfolderNames -> Projects \cup {NoProject}]
    /\ labelbox_output0 = labelbox_output
    /\ output_folder = [n \in ImageNames \cup AnnotationNames |-> NoSource]
    /\ video_source = <<>>
    /\ listing = <<>>
    /\ pc = "idle"
    /\ raised = "none"
    /\ SyncIdle
    /\ CfgIdle
    /\ tf_root = <<>>
    /\ tf_op = "none"
    /\ tf_result = "unset"
    /\ dest_folders = {}
    /\ dest_train = <<>>
    /\ dest_val = <<>>
    /\ dest_labelmap = NoFile
    /\ dest_trainval = NoFile

copy_images_to_output(filter, order) ==
    /\ pc = "idle"
    /\ order \in get_directory_subfolders_subset(labelbox_output, filter)
    /\ video_source' = filter
    /\ listing' = order
    /\ LET r == CopyImages(output_folder, labelbox_output, order, 1)
       IN /\ output_folder' = r.dest
          /\ raised' = r.raised
          /\ pc' = IF r.raised = "none" THEN "returned" ELSE "raised"
    /\ UNCHANGED <<labelbox_output, labelbox_output0>>
    /\ UNCHANGED notImg

ImgNext ==
    \E filter \in SourceFilters :
        \E order \in get_directory_subfolders_subset(labelbox_output, filter) :
            copy_images_to_output(filter, order)

ImgSpec == ImgInit /\ [][ImgNext]_vars

(* The files of the images child of a project folder. *)
ImagesOf(n) ==
    IF \E i \in DOMAIN labelbox_output0[n].children :
           labelbox_output0[n].children[i] = "images"
    THEN labelbox_output0[n].images ELSE {}

(* C9: copy_images_to_output into an empty destination leaves there exactly *)
(* the files of the images child of every subfolder whose name contains the *)
(* source filter, nothing from the other subfolders, and does not change    *)
(* the labeled-output root.                                                 *)
C9_ImagesUnion ==
    /\ labelbox_output = labelbox_output0
    /\ pc = "returned" =>
          /\ Copied(output_folder) =
                UNION {ImagesOf(n) : n \in {m \in SubfolderNames :
                           labelbox_output0[m].present /\ Contains(m, video_source)}}
          /\ \A f \in Copied(output_folder) :
                /\ Contains(output_folder[f], video_source)
                /\ f \in ImagesOf(output_folder[f])

(* Two matching project folders were merged while a third, not matching,    *)
(* holds an image that was not copied.                                      *)
C9_Witness ==
    /\ pc = "returned"
    /\ Len(listing) = 2
    /\ Copied(output_folder) = ImageNames
    /\ \E f \in ImageNames : output_folder[f] = listing[1]
    /\ \E f \in ImageNames : output_folder[f] = listing[2]
    /\ \E n \in SubfolderNames :
          /\ ~Contains(n, video_source)
          /\ labelbox_output[n].images # {}
          /\ \E i \in DOMAIN labelbox_output[n].children :
                labelbox_output[n].children[i] = "annotations"

----------------------------------------------------------------------------
(* generate_model_config, lines 553-592.  Texts are character sequences.    *)

(* The seven placeholder tokens, in the order lines 563-579 substitute them. *)
NUM_CLASSES ==
    <<"N", "U", "M", "_", "C", "L", "A", "S", "S", "E", "S">>
PRE_TRAINED_MODEL_CHECKPOINT_PATH ==
    <<"P", "R", "E", "_", "T", "R", "A", "I", "N", "E", "D", "_", "M", "O",
      "D", "E", "L", "_", "C", "H", "E", "C", "K", "P", "O", "I", "N", "T",
      "_", "P", "A", "T", "H">>
LABEL_MAP_PATH ==
    <<"L", "A", "B", "E", "L", "_", "M", "A", "P", "_", "P", "A", "T",
      "H">>
TRAIN_TF_RECORD_PATH ==
    <<"T", "R", "A", "I", "N", "_", "T", "F", "_", "R", "E", "C", "O", "R",
      "D", "_", "P", "A", "T", "H">>
VAL_TF_RECORD_PATH ==
    <<"V", "A", "L", "_", "T", "F", "_", "R", "E", "C", "O", "R", "D", "_",
      "P", "A", "T", "H">>
TRAINING_BATCH_SIZE ==
    <<"T", "R", "A", "I", "N", "I", "N", "G", "_", "B", "A", "T", "C", "H",
      "_", "S", "I", "Z", "E">>
TRAINING_EPOCH_COUNT ==
    <<"T", "R", "A", "I", "N", "I", "N", "G", "_", "E", "P", "O", "C", "H",
      "_", "C", "O", "U", "N", "T">>

Tokens ==
    <<NUM_CLASSES, PRE_TRAINED_MODEL_CHECKPOINT_PATH, LABEL_MAP_PATH,
      TRAIN_TF_RECORD_PATH, VAL_TF_RECORD_PATH, TRAINING_BATCH_SIZE,
      TRAINING_EPOCH_COUNT>>

Letters ==
    {"a", "b", "c", "d", "e", "f", "g", "h", "i", "j", "k", "l", "m", "n", "o", "p",
     "q", "r", "s", "t", "u", "v", "w", "x", "y", "z", "A", "B", "C", "D", "E", "F",
     "G", "H", "I", "J", "K", "L", "M", "N", "O", "P", "Q", "R", "S", "T", "U", "V",
     "W", "X", "Y", "Z"}
GroupDigits == {"1", "2", "3", "4", "5", "6", "7", "8", "9"}

(* The escapes re.sub knows in a replacement, and the character each gives. *)
Escaped(c) ==
    CASE c = "n" -> "LF"
      [] c = "r" -> "CR"
      [] c = "t" -> "TAB"
      [] c = "a" -> "BEL"
      [] c = "b" -> "BS"
      [] c = "f" -> "FF"
      [] c = "v" -> "VT"
      [] c = "0" -> "NUL"
      [] OTHER -> c

(* re.sub's treatment of its replacement string: a backslash starts an      *)
(* escape.  \g<0> stands for the matched text, a group number other than 0  *)
(* is an invalid reference (the patterns have no groups), an unknown        *)
(* letter or a trailing backslash is a bad escape, and a backslash before   *)
(* any other character stays as it is.                                      *)
RECURSIVE ExpandReplacement(_, _)
ExpandReplacement(repl, match) ==
    LET slashes == {i \in DOMAIN repl : repl[i] = "\\"}
    IN IF slashes = {} THEN [ok |-> TRUE, text |-> repl]
       ELSE LET i == CHOOSE j \in slashes : \A l \in slashes : j <= l
                before == SubSeq(repl, 1, i - 1)
                n == Len(repl)
            IN IF i = n THEN [ok |-> FALSE, text |-> <<>>]
               ELSE LET c == repl[i + 1]
                    IN IF c = "g"
                       THEN IF n >= i + 4 /\ SubSeq(repl, i + 2, i + 4) = <<"<", "0", ">">>
                            THEN LET rest == ExpandReplacement(SubSeq(repl, i + 5, n), match)
                                 IN [ok |-> rest.ok, text |-> before \o match \o rest.text]
                            ELSE [ok |-> FALSE, text |-> <<>>]
                       ELSE IF c \in GroupDigits THEN [ok |-> FALSE, text |-> <<>>]
                       ELSE IF c \in {"n", "r", "t", "a", "b", "f", "v", "0", "\\"}
                       THEN LET rest == ExpandReplacement(SubSeq(repl, i + 2, n), match)
                            IN [ok |-> rest.ok, text |-> before \o <<Escaped(c)>> \o rest.text]
                       ELSE IF c \in Letters THEN [ok |-> FALSE, text |-> <<>>]
                       ELSE LET rest == ExpandReplacement(SubSeq(repl, i + 2, n), match)
                            IN [ok |-> rest.ok, text |-> before \o <<"\\", c>> \o rest.text]

Occurrences(token, text) ==
    {i \in 1..(Len(text) - Len(token) + 1) :
        SubSeq(text, i, i + Len(token) - 1) = token}

Min(S) == CHOOSE i \in S : \A j \in S : i <= j

(* The leftmost non-overlapping occurrences of the token, each replaced. *)
RECURSIVE ReplaceAll(_, _, _)
ReplaceAll(token, by, text) ==
    IF Occurrences(token, text) = {} THEN text
    ELSE LET i == Min(Occurrences(token, text))
         IN SubSeq(text, 1, i - 1) \o by
              \o ReplaceAll(token, by, SubSeq(text, i + Len(token), Len(text)))

(* re.sub(token, repl, text): the replacement is parsed first (a bad one    *)
(* raises re.error whether or not the token occurs).                        *)
re_sub(token, repl, text) ==
    LET e == ExpandReplacement(repl, token)
    IN IF e.ok THEN [ok |-> TRUE, text |-> ReplaceAll(token, e.text, text)]
       ELSE [ok |-> FALSE, text |-> text]

Slash(a, b) == a \o <<"/">> \o b

(* Lines 553-556 and 563-579: the replacement of each token, in order. *)
Replacements(v) ==
    LET base == Slash(v.bucket_url, v.model_folder_ts)
    IN <<v.num_classes,
         Slash(base, <<"m", "o", "d", "e", "l", "/", "b", "a", "s", "e", "/", "m", "o", "d", "e", "l", ".", "c", "k", "p", "t">>),
         Slash(base, <<"d", "a", "t", "a", "/", "t", "f", "_", "r", "e", "c", "o", "r", "d", "s", "/", "l", "a", "b", "e", "l", "m", "a", "p", ".", "p", "b", "t", "x", "t">>),
         Slash(base, <<"d", "a", "t", "a", "/", "t", "f", "_", "r", "e", "c", "o", "r", "d", "s", "/", "t", "r", "a", "i", "n", "/", "*", ".", "r", "e", "c", "o", "r", "d">>),
         Slash(base, <<"d", "a", "t", "a", "/", "t", "f", "_", "r", "e", "c", "o", "r", "d", "s", "/", "v", "a", "l", "/", "*", ".", "r", "e", "c", "o", "r", "d">>),
         v.training_batch_size,
         v.training_epoch_count>>

(* Lines 563-579: the seven substitutions, one after the other. *)
RECURSIVE SubstituteFrom(_, _, _)
SubstituteFrom(k, repls, text) ==
    IF k > Len(Tokens) THEN [ok |-> TRUE, text |-> text]
    ELSE LET r == re_sub(Tokens[k], repls[k], text)
         IN IF r.ok THEN SubstituteFrom(k + 1, repls, r.text)
            ELSE [ok |-> FALSE, text |-> text]

SubstituteSkipFirst(template, v) == SubstituteFrom(2, Replacements(v), template)

Substitute(template, v) == SubstituteFrom(1, Replacements(v), template)

(* Lines 558-561: the two files, in the order they are written. *)
pipeline_config_files == <<"training", "model_repo">>

(* Lines 581-590: the files are written in order; the handler of an IOError *)
(* logs and executes `raise e`, and no name e is bound there.               *)
RECURSIVE WriteConfigs(_, _, _, _)
WriteConfigs(files, k, text, failing) ==
    IF k > Len(pipeline_config_files) THEN [files |-> files, raised |-> "none"]
    ELSE IF pipeline_config_files[k] \in failing
    THEN [files |-> files, raised |-> "NameError"]
    ELSE WriteConfigs([files EXCEPT ![pipeline_config_files[k]] = File(text)],
                      k + 1, text, failing)

(* Inputs of the call.  Templates are the seven tokens, one per line, in    *)
(* every rotation of their order, and four special layouts.                 *)
RECURSIVE Join(_)
Join(pieces) ==
    IF pieces = <<>> THEN <<>> ELSE pieces[1] \o <<"LF">> \o Join(Tail(pieces))

Rotation(r) == [k \in 1..Len(Tokens) |-> Tokens[((k + r - 1) % Len(Tokens)) + 1]]

TemplateTwice == NUM_CLASSES \o <<" ">> \o Join(Tokens)
TemplateSplit ==
    <<"N", "U", "M", "_">> \o TRAINING_EPOCH_COUNT \o <<"C", "L", "A", "S", "S", "E", "S">> \o <<"LF">> \o Join(Tokens)
TemplateOverlap ==
    <<"T", "R", "A", "I", "N", "I", "N", "G", "_", "E", "P", "O", "C", "H", "_", "C", "O", "U", "N">> \o TRAIN_TF_RECORD_PATH \o <<"LF">> \o Join(Tokens)
TemplateOnlyClasses == <<"n", "u", "m", ":", " ">> \o NUM_CLASSES

Templates ==
    {Join(Rotation(r)) : r \in 0..(Len(Tokens) - 1)}
        \cup {TemplateTwice, TemplateSplit, TemplateOverlap, TemplateOnlyClasses}

NumClassesValues == {<<"5">>, <<"9", "0">>}
BucketUrls == {<<"g", "s", ":", "/", "/", "b">>, <<"g", "s", ":", "/", "/", "N", "U", "M", "_", "C", "L", "A", "S", "S", "E", "S">>, <<"c", ":", "\\", "n", "e", "w">>}
ModelFolderTs == {<<"m", "_", "1">>}
BatchSizes == {<<"8">>, <<"T", "R", "A", "I", "N", "I", "N", "G", "_", "E", "P", "O", "C", "H", "_", "C", "O", "U", "N", "T">>}
EpochCounts == {<<"9">>, <<>>, <<"\\", "1">>}

ConfigValues ==
    [num_classes : NumClassesValues, bucket_url : BucketUrls,
     model_folder_ts : ModelFolderTs, training_batch_size : BatchSizes,
     training_epoch_count : EpochCounts]

CfgInit ==
    /\ OthersIdle
    /\ ExpIdle
    /\ model_config_template \in Templates
    /\ config_values \in ConfigValues
    /\ write_fails = {}
    /\ pipeline_config = [t \in {"training", "model_repo"} |-> NoFile]
    /\ pc = "idle"
    /\ raised = "none"
    /\ video_source = <<>>
    /\ listing = <<>>
    /\ SyncIdle
    /\ ImgIdle
    /\ tf_root = <<>>
    /\ tf_op = "none"
    /\ tf_result = "unset"
    /\ dest_folders = {}
    /\ dest_train = <<>>
    /\ dest_val = <<>>
    /\ dest_labelmap = NoFile
    /\ dest_trainval = NoFile

generate_model_config(failing) ==
    /\ pc = "idle"
    /\ write_fails' = failing
    /\ LET t == Substitute(model_config_template, config_values)
           w == WriteConfigs(pipeline_config, 1, t.text, failing)
       IN IF t.ok
          THEN /\ pipeline_config' = w.files
               /\ raised' = w.raised
               /\ pc' = IF w.raised = "none" THEN "returned" ELSE "raised"
          ELSE /\ pipeline_config' = pipeline_config
               /\ raised' = "re.error"
               /\ pc' = "raised"
    /\ UNCHANGED <<model_config_template, config_values>>
    /\ UNCHANGED notCfg

CfgNext ==
    \E failing \in SUBSET {"training", "model_repo"} : generate_model_config(failing)

CfgSpec == CfgInit /\ [][CfgNext]_vars

(* Properties of the config generation. *)

TokenSet == {Tokens[k] : k \in DOMAIN Tokens}

HasAllTokens(text) == \A k \in DOMAIN Tokens : Occurrences(Tokens[k], text) # {}
HasNoToken(text) == \A k \in DOMAIN Tokens : Occurrences(Tokens[k], text) = {}

(* The text with every token occurrence, found from left to right, replaced *)
(* by the token's value as it stands.                                       *)
RECURSIVE ValuesInPlace(_, _)
ValuesInPlace(text, repls) ==
    LET occ == UNION {Occurrences(Tokens[k], text) : k \in DOMAIN Tokens}
    IN IF occ = {} THEN text
       ELSE LET i == Min(occ)
                k == CHOOSE j \in DOMAIN Tokens : i \in Occurrences(Tokens[j], text)
            IN SubSeq(text, 1, i - 1) \o repls[k]
                 \o ValuesInPlace(SubSeq(text, i + Len(Tokens[k]), Len(text)), repls)

(* C6: for a template holding all seven tokens and any values, the text     *)
(* written to pipeline.config holds no placeholder token and holds each     *)
(* value verbatim where its token stood.                                    *)
C6_PureTextTransform ==
    (Done /\ write_fails = {} /\ HasAllTokens(model_config_template)) =>
        \A tree \in DOMAIN pipeline_config :
            /\ pipeline_config[tree].exists
            /\ HasNoToken(pipeline_config[tree].content)
            /\ pipeline_config[tree].content =
                  ValuesInPlace(model_config_template, Replacements(config_values))

----------------------------------------------------------------------------
(* Label export: generate_project_labels and fetch_project_labels.          *)

MaxProjects == 3

ProjectNames == {"p1", "p2"}
RequestedProjects == ProjectNames \cup {"pX"}

(* The answer of the project-list query: id and name of each project. *)
get_projects(names) == [i \in DOMAIN names |-> [id |-> i, name |-> names[i]]]

ProjectLists == {get_projects(names) : names \in SeqsUpTo(ProjectNames, MaxProjects)}

NameMatchesAny(project, name) == TRUE

(* Line 42: the test of the resolution loop. *)
NameMatches(project, name) == project.name = name

(* A JSON file of a project tree: the document it holds and how it is laid  *)
(* out on disk.                                                             *)
NoJson == [exists |-> FALSE, doc |-> "", layout |-> ""]
JsonFile(doc, layout) == [exists |-> TRUE, doc |-> doc, layout |-> layout]

(* What the export URL serves. *)
Payloads == {JsonFile("labels_v2", "compact"), JsonFile("labels_v2", "indent2")}

(* Line 81: the parsed document; line 99: the document written again with   *)
(* indent=4.                                                                *)
json_loads(p) == p.doc
json_dump(labels) == JsonFile(labels, "indent4")
Truncated(f) == JsonFile(f.doc, "truncated")

ExportFiles == {"project.json", "old.txt"}

NoTree == [exists |-> FALSE, files |-> [n \in ExportFiles |-> NoJson]]
makedirs(tree) == [exists |-> TRUE, files |-> [n \in ExportFiles |-> NoJson]]
rmtree(tree) == NoTree

StaleJson == JsonFile("labels_v1", "indent4")
InputTrees ==
    {NoTree,
     [exists |-> TRUE, files |-> [n \in ExportFiles |-> IF n = "project.json" THEN StaleJson ELSE NoJson]],
     [exists |-> TRUE, files |-> [n \in ExportFiles |-> StaleJson]]}
OutputTrees ==
    {NoTree, makedirs(NoTree),
     [exists |-> TRUE, files |-> [n \in ExportFiles |-> IF n = "old.txt" THEN StaleJson ELSE NoJson]]}

reset_tree_keep_files(tree) == [tree EXCEPT !.exists = TRUE]

(* Lines 86-88 and 90-92: delete the tree if it is there, then create it. *)
reset_tree(tree) == IF tree.exists THEN makedirs(rmtree(tree)) ELSE makedirs(tree)

(* What can happen from urlopen (line 80) to the end of the function. *)
FetchOutcomes ==
    {"ok", "urlopen_error", "read_error", "json_error", "open_error", "write_error"}

FetchException(o) ==
    CASE o = "ok" -> "none"
      [] o = "urlopen_error" -> "URLError"
      [] o = "read_error" -> "IncompleteRead"
      [] o = "json_error" -> "JSONDecodeError"
      [] OTHER -> "OSError"

ResetsTreesAlways(o) == TRUE

(* Lines 80-92: the trees are reset inside the `with urlopen(...)` block,   *)
(* after url.read() and json.loads returned: only then are they touched.    *)
ResetsTrees(o) == o \in {"ok", "open_error", "write_error"}

(* Lines 94-99: the JSON file after the write, by outcome. *)
WrittenJson(labels, o) ==
    CASE o = "ok" -> json_dump(labels)
      [] o = "write_error" -> Truncated(json_dump(labels))
      [] OTHER -> NoJson

ExpInit ==
    /\ OthersIdle
    /\ SyncIdle
    /\ TfIdle
    /\ ImgIdle
    /\ CfgIdle
    /\ pc = "idle"
    /\ raised = "none"
    /\ projects \in ProjectLists
    /\ project_name \in RequestedProjects
    /\ exp_op = "none"
    /\ scan_i = 1
    /\ project_id = <<>>
    /\ returns = 0
    /\ export_requests = <<>>
    /\ reported = FALSE
    /\ payload = <<>>
    /\ input_tree \in InputTrees
    /\ output_tree \in OutputTrees
    /\ input_tree0 = input_tree
    /\ output_tree0 = output_tree

(* Lines 67-68 and 75-76, line 39: the client is built and the project list *)
(* fetched; the resolution loop starts.                                     *)
BeginExport(op) ==
    /\ pc = "idle"
    /\ exp_op = "none"
    /\ exp_op' = op
    /\ scan_i' = 1
    /\ pc' = "scan"
    /\ UNCHANGED <<raised, projects, project_name, project_id, returns,
                   export_requests, reported, payload, input_tree, output_tree,
                   input_tree0, output_tree0>>
    /\ UNCHANGED notExp

(* Lines 41-43: one turn of the loop. *)
ScanProject ==
    /\ pc = "scan"
    /\ scan_i <= Len(projects)
    /\ IF NameMatches(projects[scan_i], project_name)
       THEN /\ project_id' = <<projects[scan_i].id>>
            /\ returns' = returns + 1
            /\ pc' = "resolved"
            /\ scan_i' = scan_i
       ELSE /\ scan_i' = scan_i + 1
            /\ UNCHANGED <<project_id, returns, pc>>
    /\ UNCHANGED <<raised, projects, project_name, exp_op, export_requests,
                   reported, payload, input_tree, output_tree, input_tree0,
                   output_tree0>>
    /\ UNCHANGED notExp

(* Line 44: the loop ended without a match. *)
ProjectNotFound ==
    /\ pc = "scan"
    /\ scan_i > Len(projects)
    /\ raised' = "ValueError"
    /\ pc' = "raised"
    /\ UNCHANGED <<projects, project_name, exp_op, scan_i, project_id, returns,
                   export_requests, reported, payload, input_tree, output_tree,
                   input_tree0, output_tree0>>
    /\ UNCHANGED notExp

(* Lines 69-71 and 77: the export mutation; generate_project_labels reports *)
(* shouldPoll and returns.                                                  *)
RequestExport(shouldPoll) ==
    /\ pc = "resolved"
    /\ export_requests' = Append(export_requests, project_id[1])
    /\ IF exp_op = "generate"
       THEN /\ reported' = shouldPoll
            /\ pc' = "returned"
       ELSE /\ reported' = reported
            /\ pc' = "download"
    /\ UNCHANGED <<raised, projects, project_name, exp_op, scan_i, project_id,
                   returns, payload, input_tree, output_tree, input_tree0,
                   output_tree0>>
    /\ UNCHANGED notExp

(* Lines 80-99: the download, the reset of the two trees, the JSON write. *)
FetchPayload(p, o) ==
    /\ pc = "download"
    /\ raised' = FetchException(o)
    /\ pc' = IF o = "ok" THEN "returned" ELSE "raised"
    /\ payload' = IF o \in {"urlopen_error", "read_error"} THEN payload ELSE <<p>>
    /\ IF ResetsTrees(o)
       THEN /\ input_tree' =
                  [reset_tree(input_tree) EXCEPT
                      !.files["project.json"] = WrittenJson(json_loads(p), o)]
            /\ output_tree' = reset_tree(output_tree)
       ELSE UNCHANGED <<input_tree, output_tree>>
    /\ UNCHANGED <<projects, project_name, exp_op, scan_i, project_id, returns,
                   export_requests, reported, input_tree0, output_tree0>>
    /\ UNCHANGED notExp

ExpNext ==
    \/ \E op \in {"generate", "fetch"} : BeginExport(op)
    \/ ScanProject
    \/ ProjectNotFound
    \/ \E shouldPoll \in BOOLEAN : RequestExport(shouldPoll)
    \/ \E p \in Payloads, o \in FetchOutcomes : FetchPayload(p, o)

ExpSpec == ExpInit /\ [][ExpNext]_vars

(* Properties of the label export. *)

MatchingIds == {projects[i].id : i \in {j \in DOMAIN projects : projects[j].name = project_name}}
Resolving == exp_op # "none" /\ pc \notin {"idle", "scan"}

(* C10: for a name present in the project list the resolution returns the   *)
(* id of a project with that name, and returns once; for an absent name it  *)
(* fails with the not-found error and neither operation requests an export. *)
C10_ProjectResolution ==
    /\ returns <= 1
    /\ (Resolving /\ MatchingIds # {}) =>
          /\ returns = 1
          /\ project_id # <<>>
          /\ project_id[1] \in MatchingIds
          /\ raised # "ValueError"
    /\ (Resolving /\ MatchingIds = {}) =>
          /\ raised = "ValueError"
          /\ returns = 0
          /\ project_id = <<>>
    /\ MatchingIds = {} => export_requests = <<>>
    /\ \A i \in DOMAIN export_requests : export_requests[i] \in MatchingIds

C10_Witness ==
    /\ exp_op = "fetch"
    /\ pc = "returned"
    /\ Len(projects) = MaxProjects
    /\ projects[1].name # project_name
    /\ Cardinality(MatchingIds) > 1
    /\ export_requests = project_id

FetchReturned == exp_op = "fetch" /\ pc = "returned"

FilesIn(tree) == {n \in DOMAIN tree.files : tree.files[n].exists}

(* C11: after fetch_project_labels returned, whatever the two trees held,   *)
(* input/<project>/ holds the one file <project>.json with the downloaded   *)
(* document, output/<project>/ exists and is empty, and no earlier file is  *)
(* left in either tree.                                                     *)
C11_FetchLeavesFreshTrees ==
    FetchReturned =>
        /\ input_tree.exists
        /\ FilesIn(input_tree) = {"project.json"}
        /\ input_tree.files["project.json"].doc = json_loads(payload[1])
        /\ input_tree.files["project.json"].layout # "truncated"
        /\ output_tree.exists
        /\ FilesIn(output_tree) = {}
        /\ \A n \in FilesIn(input_tree) : input_tree.files[n] # input_tree0.files[n]

C11_Witness ==
    /\ FetchReturned
    /\ FilesIn(input_tree0) = ExportFiles
    /\ FilesIn(output_tree0) # {}
    /\ FilesIn(input_tree) = {"project.json"}

DownloadFailed == exp_op = "fetch" /\ raised = "IncompleteRead"

(* C12 as stated: when fetch_project_labels fails while the payload is      *)
(* being downloaded, the input and output trees have been (re)created and   *)
(* <project>.json is absent or incomplete.                                  *)
C12_FailedDownloadLeavesFreshTrees ==
    DownloadFailed =>
        /\ input_tree.exists
        /\ output_tree.exists
        /\ FilesIn(input_tree) \subseteq {"project.json"}
        /\ FilesIn(output_tree) = {}
        /\ \/ ~input_tree.files["project.json"].exists
           \/ input_tree.files["project.json"].layout = "truncated"

(* C12 amended: a failure of the download (urlopen, read or JSON decoding)  *)
(* leaves both trees exactly as they were before the call; only a failure   *)
(* of the JSON write, after the download, leaves the trees recreated with   *)
(* <project>.json absent or incomplete.                                     *)
C12_FailedDownloadLeavesTreesUntouched ==
    /\ (exp_op = "fetch" /\ raised \in {"URLError", "IncompleteRead", "JSONDecodeError"}) =>
          /\ input_tree = input_tree0
          /\ output_tree = output_tree0
    /\ (exp_op = "fetch" /\ raised = "OSError") =>
          /\ input_tree.exists
          /\ output_tree.exists
          /\ FilesIn(output_tree) = {}
          /\ FilesIn(input_tree) \subseteq {"project.json"}
          /\ \/ ~input_tree.files["project.json"].exists
             \/ input_tree.files["project.json"].layout = "truncated"

C12_Witness ==
    /\ DownloadFailed
    /\ ~input_tree0.exists
    /\ ~input_tree.exists
    /\ FilesIn(output_tree) # {}

----------------------------------------------------------------------------
(* Catalog refresh: download_reference_model_list_as_csv and the parser of  *)
(* the fetched page.                                                        *)

MaxLinks == 2

(* An archive name: a stem, the release date in it (or none) and its        *)
(* extensions.                                                              *)
NoDate == ""
ArchiveNames ==
    {[stem |-> "ssd", date |-> "2018_01_28", exts |-> <<"tar", "gz">>],
     [stem |-> "rcnn", date |-> NoDate, exts |-> <<"zip">>]}

(* An <a> node of the page: its href attribute, if it has one, and its text. *)
NoHref == [present |-> FALSE, site |-> "", file |-> [stem |-> "", date |-> NoDate, exts |-> <<>>]]
Hrefs == [present : {TRUE}, site : {"zoo", "other"}, file : ArchiveNames]
LinkTexts == [star : BOOLEAN, name : {"SSD"}]
Links == [href : Hrefs \cup {NoHref}, text : LinkTexts]

NoResponse == [present |-> FALSE, status |-> "", links |-> <<>>]
Responses == [present : {TRUE}, status : {"200", "404"}, links : SeqsUpTo(Links, MaxLinks)]

NoCsv == [exists |-> FALSE, rows |-> <<>>]
Csv(rows) == [exists |-> TRUE, rows |-> rows]

(* os.path.splitext: the name without its last extension. *)
splitext(f) ==
    IF f.exts = <<>> THEN f ELSE [f EXCEPT !.exts = SubSeq(f.exts, 1, Len(f.exts) - 1)]

(* Lines 38-53: the row of a model zoo link. *)
ParseLink(link) ==
    [model_release_date |-> link.href.file.date,
     model_folder_name |-> splitext(splitext(link.href.file)),
     model_file_name |-> link.href.file,
     model_url |-> link.href,
     model_name |-> link.text.name]

(* Lines 35-53: every <a> node in page order; link.attrs["href"] of a node  *)
(* without that attribute raises KeyError.                                  *)
RECURSIVE ParseLinks(_, _, _)
ParseLinks(links, i, data) ==
    IF i > Len(links) THEN [raised |-> "none", rows |-> data]
    ELSE IF ~links[i].href.present THEN [raised |-> "KeyError", rows |-> <<>>]
    ELSE IF links[i].href.site = "zoo"
    THEN ParseLinks(links, i + 1, Append(data, ParseLink(links[i])))
    ELSE ParseLinks(links, i + 1, data)

(* Lines 20-66. *)
parse_downloaded_model_file_list_response(r) == ParseLinks(r.links, 1, <<>>)

(* How the call can go: requests.get raises, or answers; to_csv writes the  *)
(* file, or fails opening it, or fails after having truncated it.           *)
GetOutcomes == {"answered", "request_error"}
ToCsvOutcomes == {"ok", "open_error", "write_error"}

StaleCsv ==
    Csv(<<[model_release_date |-> NoDate,
           model_folder_name |-> [stem |-> "old", date |-> NoDate, exts |-> <<>>],
           model_file_name |-> [stem |-> "old", date |-> NoDate, exts |-> <<"zip">>],
           model_url |-> [present |-> TRUE, site |-> "zoo",
                          file |-> [stem |-> "old", date |-> NoDate, exts |-> <<"zip">>]],
           model_name |-> "OLD"]>>)

CatInit ==
    /\ SyncIdle
    /\ TfIdle
    /\ ImgIdle
    /\ CfgIdle
    /\ ExpIdle
    /\ DagIdle
    /\ BaseIdle
    /\ PermIdle
    /\ pc = "idle"
    /\ raised = "none"
    /\ catalog_csv \in {NoCsv, StaleCsv}
    /\ catalog_csv0 = catalog_csv
    /\ response = NoResponse

(* Lines 103-109: only requests.exceptions.RequestException is handled. *)
download_reference_model_list_as_csv(get, r, to_csv) ==
    /\ pc = "idle"
    /\ IF get = "request_error"
       THEN /\ response' = NoResponse
            /\ raised' = "none"
            /\ pc' = "returned"
            /\ catalog_csv' = catalog_csv
       ELSE /\ response' = r
            /\ LET parsed == parse_downloaded_model_file_list_response(r)
               IN IF parsed.raised # "none"
                  THEN /\ raised' = parsed.raised
                       /\ pc' = "raised"
                       /\ catalog_csv' = catalog_csv
                  ELSE /\ raised' = IF to_csv = "ok" THEN "none" ELSE "OSError"
                       /\ pc' = IF to_csv = "ok" THEN "returned" ELSE "raised"
                       /\ catalog_csv' =
                             CASE to_csv = "ok" -> Csv(parsed.rows)
                               [] to_csv = "write_error" -> Csv(<<>>)
                               [] OTHER -> catalog_csv
    /\ UNCHANGED catalog_csv0
    /\ UNCHANGED notCat

CatNext ==
    \E get \in GetOutcomes, r \in Responses, to_csv \in ToCsvOutcomes :
        download_reference_model_list_as_csv(get, r, to_csv)

CatSpec == CatInit /\ [][CatNext]_vars

(* C13: download_reference_model_list_as_csv never raises to its caller; on *)
(* a network failure or a failure while parsing the page it returns and the *)
(* CSV is as before; the CSV is overwritten only when fetch and parse both  *)
(* succeeded.                                                               *)
C13_RefreshNeverRaises ==
    Done =>
        /\ raised = "none"
        /\ pc = "returned"
        /\ (catalog_csv # catalog_csv0) =>
              /\ response.present
              /\ parse_downloaded_model_file_list_response(response).raised = "none"

(* What does hold: a RequestException is swallowed and leaves the CSV as it *)
(* was, and a failure of the parser leaves the CSV as it was.               *)
RequestErrorSwallowed ==
    (Done /\ ~response.present) => (pc = "returned" /\ catalog_csv = catalog_csv0)

----------------------------------------------------------------------------
(* The train_model DAG: train_models_dag.py builds the tasks and their      *)
(* dependencies while the scheduler imports the file; the scheduler then    *)
(* runs a task once all its upstream tasks are done.                        *)

MaxJobs == 3

JobNames == {"job1", "job2", "job3", "job4", "job5"}

(* glob of the trainable folder: distinct *.json files, in any order. *)
JobFileLists ==
    {l \in SeqsUpTo(JobNames, MaxJobs) : \A i, j \in DOMAIN l : l[i] = l[j] => i = j}

(* file_ops.get_filename, lines 37-40: with the extension it is the base    *)
(* name; without it the code calls os.path.splitext with two arguments,     *)
(* which raises TypeError.                                                  *)
get_filename(file, with_extension) ==
    IF with_extension THEN [raised |-> "none", name |-> <<file, "json">>]
    ELSE [raised |-> "TypeError", name |-> <<>>]

Task(kind, job) == [kind |-> kind, job |-> job]
start_task == Task("start_task", <<>>)
end_task == Task("end_task", <<>>)
package_tensorflow_libs_with_dependencies ==
    Task("package_tensorflow_libs_with_dependencies", <<>>)
train_model_on_basic_gpu(name) == Task("train_model_on_basic_gpu", name)
delay_eval_task(name) == Task("delay_eval", name)
eval_model_on_basic_gpu(name) == Task("eval_model_on_basic_gpu", name)

(* Lines 92-93: the dependencies one turn of the loop sets. *)
JobEdges(name) ==
    {<<start_task, package_tensorflow_libs_with_dependencies>>,
     <<package_tensorflow_libs_with_dependencies, train_model_on_basic_gpu(name)>>,
     <<train_model_on_basic_gpu(name), delay_eval_task(name)>>,
     <<delay_eval_task(name), eval_model_on_basic_gpu(name)>>,
     <<eval_model_on_basic_gpu(name), end_task>>}

(* Lines 38-52: the DAG with its three fixed tasks, before the loop. *)
DagInit ==
    /\ SyncIdle
    /\ TfIdle
    /\ ImgIdle
    /\ CfgIdle
    /\ ExpIdle
    /\ CatIdle
    /\ BaseIdle
    /\ PermIdle
    /\ pc = "loop"
    /\ raised = "none"
    /\ json_files \in JobFileLists
    /\ dag_i = 1
    /\ tasks = {start_task, end_task, package_tensorflow_libs_with_dependencies}
    /\ edges = {}
    /\ done = {}

(* Lines 54-93: one turn of the loop over the job descriptors. *)
BuildJob ==
    /\ pc = "loop"
    /\ dag_i <= Len(json_files)
    /\ LET training_name == get_filename(json_files[dag_i], FALSE)
       IN IF training_name.raised # "none"
          THEN /\ raised' = training_name.raised
               /\ pc' = "raised"
               /\ UNCHANGED <<dag_i, tasks, edges>>
          ELSE /\ tasks' = tasks \cup {train_model_on_basic_gpu(training_name.name),
                                       delay_eval_task(training_name.name),
                                       eval_model_on_basic_gpu(training_name.name)}
               /\ edges' = edges \cup JobEdges(training_name.name)
               /\ dag_i' = dag_i + 1
               /\ UNCHANGED <<pc, raised>>
    /\ UNCHANGED <<json_files, done>>
    /\ UNCHANGED notDag

(* The loop is over: the import ends and the DAG is registered. *)
FinishImport ==
    /\ pc = "loop"
    /\ dag_i > Len(json_files)
    /\ pc' = "built"
    /\ UNCHANGED <<raised, json_files, dag_i, tasks, edges, done>>
    /\ UNCHANGED notDag

(* The scheduler runs a task of a registered DAG whose upstream tasks are   *)
(* all done.                                                                *)
RunTask(t) ==
    /\ pc = "built"
    /\ t \in tasks \ done
    /\ \A e \in edges : e[2] = t => e[1] \in done
    /\ done' = done \cup {t}
    /\ UNCHANGED <<pc, raised, json_files, dag_i, tasks, edges>>
    /\ UNCHANGED notDag

DagNext ==
    \/ BuildJob
    \/ FinishImport
    \/ \E t \in tasks : RunTask(t)

DagSpec == DagInit /\ [][DagNext]_vars

JobTasks(file) ==
    LET name == <<file, "json">>
    IN [train |-> train_model_on_basic_gpu(name), delay |-> delay_eval_task(name),
        eval |-> eval_model_on_basic_gpu(name), name |-> name]

(* C14: for every job descriptor of the trainable folder the DAG orders     *)
(* packaging, the job's train submission, its delay, its evaluate           *)
(* submission and end_task; no evaluation is submitted before its training  *)
(* and delay completed, no training before packaging, and end_task runs     *)
(* only after every job's evaluation.                                       *)
C14_TrainDelayEvaluateOrder ==
    /\ pc \in {"built", "raised"} =>
          \A i \in DOMAIN json_files :
              LET j == JobTasks(json_files[i])
              IN /\ {j.train, j.delay, j.eval} \subseteq tasks
                 /\ JobEdges(j.name) \subseteq edges
    /\ \A i \in DOMAIN json_files :
          LET j == JobTasks(json_files[i])
          IN /\ j.eval \in done => {j.train, j.delay} \subseteq done
             /\ j.train \in done => package_tensorflow_libs_with_dependencies \in done
             /\ end_task \in done => j.eval \in done

(* What the code does: the DAG is registered only for an empty folder. *)
DagBuiltOnlyWithoutJobs == pc = "built" => json_files = <<>>

----------------------------------------------------------------------------
(* C18: over any sequence of download_and_extract_base_model runs in which  *)
(* downloads may fail or answer a status other than 200, a folder named     *)
(* model_folder_name exists in the models directory only if that entry's    *)
(* archive was downloaded and extracted; so an entry whose download failed  *)
(* (its folder stands empty) is requested again by the next run.            *)
C18_FolderOnlyIfExtracted ==
    /\ InRun =>
          \A f \in FolderNames :
              (dirs0[f] = "absent" /\ model_dirs[f] # "absent") => model_dirs[f] = "extracted"
    /\ pc = "returned" =>
          \A row \in RequestedRows :
              dirs0[row.model_folder_name] = "empty" => row \in http_gets

(* What the code does: a folder found at the start of a run, extracted or   *)
(* empty, is never requested in that run.                                   *)
ExistingFolderNeverRequested ==
    InRun => \A row \in http_gets : dirs0[row.model_folder_name] = "absent"

----------------------------------------------------------------------------
(* Base model copy: copy_base_model_to_training_folder and                  *)
(* copy_base_model_to_model_repo_folder, which differ in their destination  *)
(* only.                                                                    *)

BaseFileNames == {"model.ckpt", "checkpoint", "pipeline.config"}

(* An extracted base-model folder and the files in it. *)
NoFolder == [exists |-> FALSE, files |-> {}]
SrcFolders ==
    {NoFolder} \cup
    {[exists |-> TRUE, files |-> S] :
        S \in {{}, {"model.ckpt"}, {"model.ckpt", "pipeline.config"}}}

(* The destination: per file name where it was copied from, <<"old">> for a *)
(* file that was there before, or NoSource.                                 *)
NoDest == [exists |-> FALSE, files |-> [n \in BaseFileNames |-> NoSource]]
DestFolders ==
    {NoDest,
     [exists |-> TRUE, files |-> [n \in BaseFileNames |-> NoSource]],
     [exists |-> TRUE, files |-> [n \in BaseFileNames |->
                                     IF n = "model.ckpt" THEN NoSource ELSE <<"old">>]]}

(* Lines 462-464: the rows of that display name; iloc[0] of none of them    *)
(* raises IndexError.                                                       *)
model_df(rows, name) == SelectSeq(rows, LAMBDA row : row.model_name = name)

os_remove_skipped(files, name) == [files |-> files, raised |-> "none"]

(* Lines 472-474: os.remove of a file that is not there raises. *)
os_remove(files, name) ==
    IF files[name] = NoSource
    THEN [files |-> files, raised |-> "FileNotFoundError"]
    ELSE [files |-> [files EXCEPT ![name] = NoSource], raised |-> "none"]

(* Lines 460-478 and 497-515. *)
CopyBaseModel(rows, name, src, dest) ==
    LET found == model_df(rows, name)
    IN IF found = <<>> THEN [dest |-> dest, raised |-> "IndexError"]
       ELSE LET base_model_folder_name == found[1].model_folder_name
                model_folder == src[base_model_folder_name]
                created == [dest EXCEPT !.exists = TRUE]
            IN IF ~model_folder.exists
               THEN [dest |-> created, raised |-> "FileNotFoundError"]
               ELSE LET copied == copy_files_from_folder(
                                      created.files, model_folder.files,
                                      <<base_model_folder_name>>)
                        removed == os_remove(copied, "pipeline.config")
                    IN [dest |-> [created EXCEPT !.files = removed.files],
                        raised |-> removed.raised]

BaseInit ==
    /\ TfIdle
    /\ ImgIdle
    /\ CfgIdle
    /\ ExpIdle
    /\ CatIdle
    /\ DagIdle
    /\ PermIdle
    /\ pc = "idle"
    /\ raised = "none"
    /\ catalog \in SeqsUpTo(Rows, MaxCatalog)
    /\ model_dirs = <<>>
    /\ model_files = {}
    /\ required_base_models = None
    /\ models = <<>>
    /\ subfolders = {}
    /\ idx = 1
    /\ outcomes = <<>>
    /\ http_gets = {}
    /\ mkdirs = {}
    /\ dirs0 = <<>>
    /\ files0 = {}
    /\ runs = 0
    /\ required_list = <<>>
    /\ catalog0 = <<>>
    /\ base_model \in RequestNames
    /\ base_variant = "none"
    /\ base_src \in [FolderNames -> SrcFolders]
    /\ base_dest \in DestFolders
    /\ base_dest0 = base_dest

CopyBase(variant) ==
    /\ pc = "idle"
    /\ base_variant' = variant
    /\ LET r == CopyBaseModel(catalog, base_model, base_src, base_dest)
       IN /\ base_dest' = r.dest
          /\ raised' = r.raised
          /\ pc' = IF r.raised = "none" THEN "returned" ELSE "raised"
    /\ UNCHANGED <<base_model, base_src, base_dest0>>
    /\ UNCHANGED notBase

copy_base_model_to_training_folder == CopyBase("training")
copy_base_model_to_model_repo_folder == CopyBase("model_repo")

BaseNext ==
    \/ copy_base_model_to_training_folder
    \/ copy_base_model_to_model_repo_folder

BaseSpec == BaseInit /\ [][BaseNext]_vars

BaseDone == base_variant # "none" /\ Done
InCatalog == \E i \in DOMAIN catalog : catalog[i].model_name = base_model
BaseFolder == model_df(catalog, base_model)[1].model_folder_name

(* C15: with the display name in the catalog, the destination afterwards    *)
(* holds every file of the base model's extracted folder but                *)
(* pipeline.config, which is not in the destination after a call that       *)
(* returned; with the name absent the call fails with IndexError and the    *)
(* destination is neither created nor changed.                              *)
C15_BaseModelCopy ==
    /\ (BaseDone /\ InCatalog) =>
          /\ \A n \in base_src[BaseFolder].files \ {"pipeline.config"} :
                base_dest.files[n] = <<BaseFolder>>
          /\ pc = "returned" =>
                /\ base_dest.exists
                /\ base_dest.files["pipeline.config"] = NoSource
    /\ (BaseDone /\ ~InCatalog) =>
          /\ raised = "IndexError"
          /\ base_dest = base_dest0

C15_Witness ==
    /\ BaseDone
    /\ pc = "returned"
    /\ InCatalog
    /\ base_src[BaseFolder].files = {"model.ckpt", "pipeline.config"}
    /\ base_dest0.files["pipeline.config"] = <<"old">>
    /\ base_dest.files["model.ckpt"] = <<BaseFolder>>

----------------------------------------------------------------------------
Substituted == Substitute(model_config_template, config_values)

(* C16: generate_model_config writes the same substituted text to           *)
(* pipeline.config of the training tree and of the model-repo tree; when    *)
(* writing either file fails with an I/O error, that I/O error is what      *)
(* reaches the caller.                                                      *)
C16_WriteFailureReRaised ==
    (Done /\ Substituted.ok) =>
        /\ write_fails = {} =>
              /\ pc = "returned"
              /\ \A tree \in DOMAIN pipeline_config :
                    pipeline_config[tree] = File(Substituted.text)
        /\ write_fails # {} =>
              /\ pc = "raised"
              /\ raised = "IOError"

(* What the code does: the files that are written hold the same text, and a *)
(* failed write ends the call with NameError.                               *)
WriteFailureIsNameError ==
    (Done /\ Substituted.ok) =>
        /\ \A tree \in DOMAIN pipeline_config :
              pipeline_config[tree].exists => pipeline_config[tree] = File(Substituted.text)
        /\ write_fails # {} => (pc = "raised" /\ raised = "NameError")
        /\ write_fails = {} => pc = "returned"

----------------------------------------------------------------------------
(* The seven substitutions of lines 563-579 applied in any order: one       *)
(* re.sub per step, for a token not substituted yet.                        *)

Failed == [ok |-> FALSE, text |-> <<>>]

(* What a sequence of substitutions comes to: the text, or the re.error     *)
(* that ended it.                                                           *)
Outcome(r) == IF r.ok THEN r ELSE Failed

PermInit ==
    /\ SyncIdle
    /\ TfIdle
    /\ ImgIdle
    /\ ExpIdle
    /\ CatIdle
    /\ DagIdle
    /\ BaseIdle
    /\ pc = "idle"
    /\ raised = "none"
    /\ model_config_template \in Templates
    /\ config_values \in ConfigValues
    /\ write_fails = {}
    /\ pipeline_config = [t \in {"training", "model_repo"} |-> NoFile]
    /\ applied = {}
    /\ perm_result = [ok |-> TRUE, text |-> model_config_template]

ApplySubstitution(k) ==
    /\ perm_result.ok
    /\ k \notin applied
    /\ applied' = applied \cup {k}
    /\ perm_result' =
          Outcome(re_sub(Tokens[k], Replacements(config_values)[k], perm_result.text))
    /\ UNCHANGED <<pc, raised, cfgVars>>
    /\ UNCHANGED notPerm

PermNext == \E k \in DOMAIN Tokens : ApplySubstitution(k)

PermSpec == PermInit /\ [][PermNext]_vars

AllApplied == ~perm_result.ok \/ applied = DOMAIN Tokens

(* C17 as stated: for every template and all values, the seven              *)
(* substitutions applied in any order give the text the code's order gives. *)
C17_OrderIrrelevant == AllApplied => perm_result = Outcome(Substituted)

(* No two token occurrences of the template share a character. *)
NonOverlapping(text) ==
    \A k1, k2 \in DOMAIN Tokens :
        \A i \in Occurrences(Tokens[k1], text), j \in Occurrences(Tokens[k2], text) :
            \/ (k1 = k2 /\ i = j)
            \/ i + Len(Tokens[k1]) <= j
            \/ j + Len(Tokens[k2]) <= i

TokenAlphabet == UNION {Range(Tokens[k]) : k \in DOMAIN Tokens}

(* A replacement no part of which can be, begin, end or complete a token:   *)
(* it is not empty, starts and ends with a character no token has, and      *)
(* holds no token.                                                          *)
InertValue(repl, token) ==
    LET e == ExpandReplacement(repl, token)
    IN e.ok =>
          /\ e.text # <<>>
          /\ e.text[1] \notin TokenAlphabet
          /\ e.text[Len(e.text)] \notin TokenAlphabet
          /\ HasNoToken(e.text)

InertValues ==
    \A k \in DOMAIN Tokens : InertValue(Replacements(config_values)[k], Tokens[k])

(* C17 amended: when the template's token occurrences do not overlap and    *)
(* every replacement is inert, any order of the seven substitutions gives   *)
(* the outcome of the code's order.                                         *)
C17_OrderIrrelevantForInertValues ==
    AllApplied =>
        ((NonOverlapping(model_config_template) /\ InertValues) =>
            perm_result = Outcome(Substituted))

C17_Witness ==
    /\ applied = DOMAIN Tokens
    /\ perm_result.ok
    /\ model_config_template = TemplateTwice
    /\ InertValues
    /\ HasNoToken(perm_result.text)
    /\ \E i \in DOMAIN perm_result.text : perm_result.text[i] = "LF"
    /\ \E i \in DOMAIN config_values.bucket_url : config_values.bucket_url[i] = "\\"

====
